---- MODULE Spec2Model ----
(***************************************************************************)
(* Rule monitoring and execution engine of the Solana trading bot:         *)
(* backend/app/jobs/scheduler.py (JobScheduler, check_rule_condition,      *)
(* evaluate_condition, execute_trade, log_job_result), the rule endpoints  *)
(* of backend/app/api/rules.py that drive it (create, toggle, rule chat)   *)
(* and the startup sequence of backend/main.py.                            *)
(*                                                                         *)
(* Every database statement (a SELECT, a commit) is one atomic step; the   *)
(* coroutines interleave at their awaits.  A session holds the row it      *)
(* loaded; a commit writes the attributes the session changed and never    *)
(* re-reads the row.                                                       *)
(***************************************************************************)
EXTENDS Integers, Sequences, FiniteSets, TLC

\* ---------------------------------------------------------------- bounds
NumRules == 2
MaxTicks == 2
MaxReqs == 2
MaxRestarts == 1
NumPending == 2
MaxPendingReqs == 3

RuleIds == 1..NumRules
TickIds == 1..MaxTicks
ReqIds == 1..MaxReqs
PendingIds == 1..NumPending
PendingReqIds == 1..MaxPendingReqs

\* Optional values (Python None): the empty tuple, or a one-element tuple
None == <<>>
Some(x) == <<x>>
Val(o) == o[1]

\* Prices the oracle may return (None: all three sources failed).
Prices == {79, 85}

\* job_defaults of the AsyncIOScheduler
max_instances == 1

\* ------------------------------------------------------------ rule rows
\* Parsed rules as create_rule stores them: the rules the users create, in
\* creation order (odd ids: scenario A of the specification).
SellBelow == [condition_type |-> "price_below", condition_value |-> 80,
              reference_price |-> Some(85), action_type |-> "sell",
              action_amount_percent |-> Some(100), action_amount_usd |-> None]

BuyAbove == [condition_type |-> "price_above", condition_value |-> 80,
             reference_price |-> Some(79), action_type |-> "buy",
             action_amount_percent |-> Some(100), action_amount_usd |-> Some(160)]

RuleConfig(r) == IF r % 2 = 1 THEN SellBelow ELSE BuyAbove

NoConfig == [condition_type |-> "", condition_value |-> 0,
             reference_price |-> None, action_type |-> "",
             action_amount_percent |-> None, action_amount_usd |-> None]

VARIABLES
  phase,        \* "starting": lifespan startup before restore_jobs; "running"
  use_mock,     \* DriftService._use_mock
  status,       \* TradingRule.status per rule id ("absent": no row)
  triggered_at, \* TradingRule.triggered_at is set
  cfg,          \* condition and action columns of the rule row
  logs,         \* committed JobLog rows per rule id
  trades,       \* committed Trade rows per rule id
  jobs,         \* scheduler job store: "none", "scheduled", "paused"
  ticks,        \* executions of check_rule_condition, by start order
  nticks,       \* number of ticks started
  reqs,         \* toggle and rule-chat requests, by arrival order
  nreqs,        \* number of requests started
  creating,     \* create_rule handlers between commit and add_rule_job
  restarts,     \* process restarts so far
  pending,      \* PendingTrade.status per pending trade id
  pending_due,  \* PendingTrade.expires_at lies in the past
  ptrades,      \* number of Trade rows created for the pending trade
  preqs,        \* pending-trade requests, by arrival order
  npreqs        \* number of pending-trade requests started

vars == <<phase, use_mock, status, triggered_at, cfg, logs, trades, jobs,
          ticks, nticks, reqs, nreqs, creating, restarts,
          pending, pending_due, ptrades, preqs, npreqs>>

\* the rules, their ticks and their requests
rulevars == <<phase, use_mock, status, triggered_at, cfg, logs, trades, jobs,
              ticks, nticks, reqs, nreqs, creating, restarts>>

\* the pending_trades table and the requests on it
pvars == <<pending, pending_due, ptrades, preqs, npreqs>>

IdlePReq == [id |-> 0, kind |-> "", pc |-> "unused", st |-> "", target |-> ""]
DonePReq == [id |-> 0, kind |-> "", pc |-> "done", st |-> "", target |-> ""]

\* pending trades waiting for the user, no request on them yet
PendingInit ==
  /\ pending = [p \in PendingIds |-> "pending"]
  /\ pending_due = [p \in PendingIds |-> FALSE]
  /\ ptrades = [p \in PendingIds |-> 0]
  /\ preqs = [j \in PendingReqIds |-> IdlePReq]
  /\ npreqs = 0

store == <<status, triggered_at, cfg, logs, trades>>

\* price: the price the tick observed; tx, order: what execute_trade returned
\* and the order it handed to the exchange client; pos, price2: the position
\* and the price execute_trade looked up itself
IdleTick == [rule |-> 0, pc |-> "unused", price |-> None, tx |-> None,
             order |-> None, pos |-> None, price2 |-> None]
DoneTick == [rule |-> 0, pc |-> "done", price |-> None, tx |-> None,
             order |-> None, pos |-> None, price2 |-> None]
IdleReq == [rule |-> 0, kind |-> "", pc |-> "unused", st |-> ""]
DoneReq == [rule |-> 0, kind |-> "", pc |-> "done", st |-> ""]

InFlight(t) == t.pc \notin {"unused", "done"}

\* mutant: the running instances are counted over all jobs
instances_AllJobs(r) == Cardinality({i \in TickIds : InFlight(ticks[i])})

\* BaseExecutor._instances[job_id]: running instances of the job id
instances(r) == Cardinality({i \in TickIds : InFlight(ticks[i]) /\ ticks[i].rule = r})

\* --------------------------------------------------- JobScheduler methods
\* mutant: an existing job is removed and the new one is not added
add_rule_job_RemoveOnly(js, r) ==
  IF js[r] # "none" THEN [js EXCEPT ![r] = "none"] ELSE [js EXCEPT ![r] = "scheduled"]

\* remove_job of an existing job, then add_job(..., replace_existing=True)
add_rule_job(js, r) == [js EXCEPT ![r] = "scheduled"]

remove_rule_job(js, r) == [js EXCEPT ![r] = "none"]

\* mutant: pausing discards the job
pause_rule_job_Discard(js, r) == [js EXCEPT ![r] = "none"]

\* job = get_job(id); if job: job.pause()
pause_rule_job(js, r) == IF js[r] # "none" THEN [js EXCEPT ![r] = "paused"] ELSE js

resume_rule_job(js, r) == IF js[r] # "none" THEN [js EXCEPT ![r] = "scheduled"] ELSE js

\* mutant: the query also returns the paused rules
RestoreSelect_WithPaused(st) == {r \in RuleIds : st[r] \in {"active", "paused"}}

\* restore_jobs: add a job for every rule the store holds as active
RestoreSelect(st) == {r \in RuleIds : st[r] = "active"}

restore_jobs(js, st) ==
  [r \in RuleIds |-> IF r \in RestoreSelect(st) THEN "scheduled" ELSE js[r]]

\* ------------------------------------------------------ evaluate_condition
\* mutant: a missing reference price counts as 0
RefPrice_Zero(rule, current_price) ==
  IF rule.reference_price = None THEN 0 ELSE Val(rule.reference_price)

\* ref_price = rule.reference_price or current_price
RefPrice(rule, current_price) ==
  IF rule.reference_price = None \/ rule.reference_price = Some(0)
    THEN current_price ELSE Val(rule.reference_price)

\* ((current - ref) / ref) * 100 compared with value, without division:
\* for ref > 0 the comparison keeps its direction, for ref < 0 it flips.
\* mutant: a rise has to exceed the value
PctGe_Strict(current_price, ref, value) ==
  IF ref > 0 THEN (current_price - ref) * 100 > value * ref
             ELSE (current_price - ref) * 100 < value * ref

PctGe(current_price, ref, value) ==
  IF ref > 0 THEN (current_price - ref) * 100 >= value * ref
             ELSE (current_price - ref) * 100 <= value * ref

PctLe(current_price, ref, value) ==
  IF ref > 0 THEN (current_price - ref) * 100 <= value * ref
             ELSE (current_price - ref) * 100 >= value * ref

\* mutant: the threshold itself counts as above
PriceAbove_Inclusive(current_price, value) == current_price >= value

\* return current_price > rule.condition_value
PriceAbove(current_price, value) == current_price > value

\* return current_price < rule.condition_value
PriceBelow(current_price, value) == current_price < value

evaluate_condition(rule, current_price) ==
  LET value == rule.condition_value
      ref_price == RefPrice(rule, current_price)
  IN CASE rule.condition_type = "price_above" -> PriceAbove(current_price, value)
       [] rule.condition_type = "price_below" -> PriceBelow(current_price, value)
       [] rule.condition_type = "price_change_percent" ->
            IF ref_price = 0 THEN FALSE
            ELSE IF value > 0 THEN PctGe(current_price, ref_price, value)
                 ELSE PctLe(current_price, ref_price, value)
       [] rule.condition_type = "price_change_absolute" ->
            IF value > 0 THEN current_price - ref_price >= value
            ELSE current_price - ref_price <= value
       [] OTHER -> FALSE

\* ------------------------------------------------------------ DriftService
\* Positions get_user_position can report (a zero position is reported as None)
Positions == {None, Some(2), Some(0 - 2)}

Abs(n) == IF n < 0 THEN 0 - n ELSE n

NoOrder == [tx |-> None, order |-> None, raised |-> FALSE]

get_user_position(mock, position) == IF mock THEN None ELSE position

\* direction = Long if side.lower() == "buy" else Short
PositionDirection(side) == IF side = "buy" THEN "long" ELSE "short"

\* sizes are kept as fractions <<numerator, denominator>>
place_market_order(mock, side, size, reduce_only, placed) ==
  IF mock THEN [tx |-> Some("MOCK"), order |-> None, raised |-> FALSE]
  ELSE LET o == Some([direction |-> PositionDirection(side), size |-> size,
                      reduce_only |-> reduce_only])
       IN IF placed THEN [tx |-> Some("TX"), order |-> o, raised |-> FALSE]
          ELSE [tx |-> None, order |-> o, raised |-> TRUE]

close_position(mock, position, placed) ==
  IF mock THEN [tx |-> Some("MOCK_CLOSE"), order |-> None, raised |-> FALSE]
  ELSE LET pos == get_user_position(mock, position)
       IN IF pos = None THEN NoOrder
          ELSE place_market_order(mock, IF Val(pos) > 0 THEN "sell" ELSE "buy",
                                  <<Abs(Val(pos)), 1>>, TRUE, placed)

\* ------------------------------------------------------------ execute_trade
\* position: what the position API reports; price2: the price BUY fetches
\* again; placed: whether the live client accepts the order or raises.
TradeCall(rule, mock, position, price2, placed) ==
  CASE rule.action_type = "close_position" -> close_position(mock, position, placed)
    [] rule.action_type = "sell" ->
         LET pos == get_user_position(mock, position)
         IN IF pos # None /\ Val(pos) > 0
              THEN IF rule.action_amount_percent = None
                     THEN [tx |-> None, order |-> None, raised |-> TRUE]
                     ELSE place_market_order(mock, "short",
                            <<Abs(Val(pos)) * Val(rule.action_amount_percent), 100>>,
                            TRUE, placed)
              ELSE NoOrder
    [] rule.action_type = "buy" ->
         IF rule.action_amount_usd # None /\ rule.action_amount_usd # Some(0)
           THEN IF price2 # None /\ price2 # Some(0)
                  THEN place_market_order(mock, "long",
                         <<Val(rule.action_amount_usd), Val(price2)>>, FALSE, placed)
                  ELSE NoOrder
           ELSE NoOrder
    [] OTHER -> NoOrder

\* what execute_trade returns when the exchange client raised
ExecutorFailure == None

\* the except clause of execute_trade turns a raise into None
execute_trade(rule, mock, position, price2, placed) ==
  LET c == TradeCall(rule, mock, position, price2, placed)
  IN IF c.raised THEN ExecutorFailure ELSE c.tx

\* the position execute_trade is given by the position API (SELL, and
\* close_position of the live client), None when it does not ask
PositionSeen(rule, mock, position) ==
  IF rule.action_type \in {"sell", "close_position"}
    THEN get_user_position(mock, position) ELSE None

\* the price the BUY branch fetches, None when it does not ask or gets none
PriceSeen(rule, price2) ==
  IF rule.action_type = "buy" /\ rule.action_amount_usd # None
       /\ rule.action_amount_usd # Some(0)
    THEN price2 ELSE None

\* ------------------------------------------------- rows a tick writes
TradeSide(rule) == IF rule.action_type = "sell" THEN "short" ELSE "long"

\* mutant: a placed order is recorded as pending
TradeStatus_Pending(tx_sig) == IF tx_sig # None THEN "pending" ELSE "failed"

TradeStatus(tx_sig) == IF tx_sig # None THEN "confirmed" ELSE "failed"

\* mutant: the rule is only moved to triggered when the order went through
StatusAfterTrade_OnlyOnSuccess(tx_sig) == IF tx_sig # None THEN "triggered" ELSE "active"

\* mutant: the trade is recorded but the rule is left active
StatusAfterTrade_Active(tx_sig) == "active"

\* rule.status = RuleStatus.TRIGGERED, whatever execute_trade returned
StatusAfterTrade(tx_sig) == "triggered"

TradeRow(rule, current_price, tx_sig) ==
  [side |-> TradeSide(rule), size |-> rule.action_amount_percent,
   price |-> current_price, tx_signature |-> tx_sig,
   status |-> TradeStatus(tx_sig)]

\* mutant: the log row is written without the error text
log_job_result_NoError(current_price, condition_met, message, error) ==
  [current_price |-> current_price, condition_met |-> condition_met,
   message |-> message, error |-> None]

\* mutant: the log row is written without the price
log_job_result_NoPrice(current_price, condition_met, message, error) ==
  [current_price |-> None, condition_met |-> condition_met,
   message |-> message, error |-> error]

log_job_result(current_price, condition_met, message, error) ==
  [current_price |-> current_price, condition_met |-> condition_met,
   message |-> message, error |-> error]

\* --------------------------------------------------------------- Init
Init ==
  /\ phase = "starting"
  /\ use_mock \in BOOLEAN
  /\ status = [r \in RuleIds |-> "absent"]
  /\ triggered_at = [r \in RuleIds |-> FALSE]
  /\ cfg = [r \in RuleIds |-> NoConfig]
  /\ logs = [r \in RuleIds |-> <<>>]
  /\ trades = [r \in RuleIds |-> <<>>]
  /\ jobs = [r \in RuleIds |-> "none"]
  /\ ticks = [i \in TickIds |-> IdleTick]
  /\ nticks = 0
  /\ reqs = [j \in ReqIds |-> IdleReq]
  /\ nreqs = 0
  /\ creating = {}
  /\ restarts = 0
  /\ PendingInit

\* ------------------------------------------------------ startup (main.py)
\* lifespan: job_scheduler.start(); await job_scheduler.restore_jobs()
RestoreFromStore ==
  /\ phase = "starting"
  /\ jobs' = restore_jobs(jobs, status)
  /\ phase' = "running"
  /\ UNCHANGED <<use_mock, store, ticks, nticks, reqs, nreqs, creating, restarts>>
  /\ UNCHANGED pvars

\* The process stops (scheduler.shutdown cancels the running ticks, the
\* handlers in flight die with the event loop, the in-memory job store is
\* lost) and starts again with an empty scheduler.
Restart ==
  /\ phase = "running"
  /\ restarts < MaxRestarts
  /\ restarts' = restarts + 1
  /\ phase' = "starting"
  /\ use_mock' \in BOOLEAN
  /\ jobs' = [r \in RuleIds |-> "none"]
  /\ ticks' = [i \in TickIds |-> IF InFlight(ticks[i]) THEN DoneTick ELSE ticks[i]]
  /\ reqs' = [j \in ReqIds |-> IF reqs[j].pc \notin {"unused", "done"} THEN DoneReq ELSE reqs[j]]
  /\ creating' = {}
  /\ UNCHANGED <<store, nticks, nreqs>>
  /\ UNCHANGED pvars

\* ------------------------------------------------------------ create_rule
NextRuleId == CHOOSE r \in RuleIds : status[r] = "absent" /\ \A q \in RuleIds : q < r => status[q] # "absent"

\* db.add(rule); await db.commit()
CreateCommit ==
  /\ phase = "running"
  /\ \E r \in RuleIds : status[r] = "absent"
  /\ LET r == NextRuleId
     IN /\ status' = [status EXCEPT ![r] = "active"]
        /\ cfg' = [cfg EXCEPT ![r] = RuleConfig(r)]
        /\ creating' = creating \cup {r}
  /\ UNCHANGED <<phase, use_mock, triggered_at, logs, trades, jobs, ticks, nticks,
                 reqs, nreqs, restarts>>
  /\ UNCHANGED pvars

\* await db.refresh(rule); job_scheduler.add_rule_job(rule.id)
CreateAdd(r) ==
  /\ phase = "running"
  /\ r \in creating
  /\ creating' = creating \ {r}
  /\ jobs' = add_rule_job(jobs, r)
  /\ UNCHANGED <<phase, use_mock, store, ticks, nticks, reqs, nreqs, restarts>>
  /\ UNCHANGED pvars

\* Add(ruleID) called on the scheduler again, for any rule id: add_rule_job
\* does not look at the store (one of the calls the bound MaxReqs counts)
Add(r) ==
  /\ phase = "running"
  /\ nreqs < MaxReqs
  /\ nreqs' = nreqs + 1
  /\ reqs' = [reqs EXCEPT ![nreqs + 1] = DoneReq]
  /\ jobs' = add_rule_job(jobs, r)
  /\ UNCHANGED <<phase, use_mock, store, ticks, nticks, creating, restarts>>
  /\ UNCHANGED pvars

\* --------------------------------------------------- the scheduler's timer
\* mutant: runs are submitted without the instance limit
CanSubmit_NoLimit(r) == TRUE

\* BaseExecutor.submit_job: the run is refused while max_instances runs of
\* the job id are in flight
CanSubmit(r) == instances(r) < max_instances

\* The interval trigger of job rule_<r> fires: the run is submitted, or
\* skipped (logged, not queued) when the executor refuses it.
TimerFire(r) ==
  /\ phase = "running"
  /\ jobs[r] = "scheduled"
  /\ nticks < MaxTicks
  /\ IF CanSubmit(r)
       THEN /\ nticks' = nticks + 1
            /\ ticks' = [ticks EXCEPT ![nticks + 1] = [IdleTick EXCEPT !.rule = r, !.pc = "load"]]
       ELSE UNCHANGED <<ticks, nticks>>
  /\ UNCHANGED <<phase, use_mock, store, jobs, reqs, nreqs, creating, restarts>>
  /\ UNCHANGED pvars

\* ---------------------------------------------------- check_rule_condition
\* mutant: only a missing rule is skipped
SkipTick_MissingOnly(st) == st = "absent"

\* if not rule or rule.status != RuleStatus.ACTIVE: return
SkipTick(st) == st # "active"

\* select(TradingRule); if not rule or rule.status != ACTIVE: return
TickLoad(i) ==
  /\ ticks[i].pc = "load"
  /\ LET r == ticks[i].rule
     IN ticks' = [ticks EXCEPT ![i] =
                    IF SkipTick(status[r]) THEN DoneTick ELSE [@ EXCEPT !.pc = "oracle"]]
  /\ UNCHANGED <<phase, use_mock, store, jobs, nticks, reqs, nreqs, creating, restarts>>
  /\ UNCHANGED pvars

\* mutant: a tick that gets no price takes the rule's job out of the scheduler
JobsAfterNoPrice_Removed(js, r) == remove_rule_job(js, r)

\* if current_price is None: log_job_result(...); return -- the scheduler is
\* not called, the job keeps its next run time
JobsAfterNoPrice(js, r) == js

\* current_price = await get_perp_market_price(...).  None: the log row is
\* added to the session and the function returns; leaving the session block
\* without commit discards it.  Otherwise evaluate_condition decides between
\* the trade branch and the "condition not met" branch.
TickOracle(i, p) ==
  /\ ticks[i].pc = "oracle"
  /\ LET r == ticks[i].rule
     IN /\ ticks' = [ticks EXCEPT ![i] =
                       IF p = None THEN DoneTick
                       ELSE IF evaluate_condition(cfg[r], Val(p))
                              THEN [@ EXCEPT !.pc = "trade", !.price = p]
                              ELSE [@ EXCEPT !.pc = "commit", !.price = p]]
        /\ jobs' = IF p = None THEN JobsAfterNoPrice(jobs, r) ELSE jobs
  /\ UNCHANGED <<phase, use_mock, store, nticks, reqs, nreqs, creating, restarts>>
  /\ UNCHANGED pvars

\* tx_sig = await execute_trade(rule); session.add(trade); rule.status =
\* TRIGGERED; log_job_result(...); job_scheduler.remove_rule_job(rule_id)
TickTrade(i, position, price2, placed) ==
  /\ ticks[i].pc = "trade"
  /\ LET r == ticks[i].rule
     IN /\ ticks' = [ticks EXCEPT ![i] =
                       [@ EXCEPT !.pc = "commit_trade",
                                 !.tx = execute_trade(cfg[r], use_mock, position, price2, placed),
                                 !.order = TradeCall(cfg[r], use_mock, position, price2, placed).order,
                                 !.pos = PositionSeen(cfg[r], use_mock, position),
                                 !.price2 = PriceSeen(cfg[r], price2)]]
        /\ jobs' = remove_rule_job(jobs, r)
  /\ UNCHANGED <<phase, use_mock, store, nticks, reqs, nreqs, creating, restarts>>
  /\ UNCHANGED pvars

\* INSERT INTO job_logs (rule_id, ...): the engine is created without the
\* foreign_keys pragma, so SQLite takes any rule_id
LogInsertable(st) == TRUE

\* UPDATE trading_rules ... WHERE id = ? has to match the row: the flush
\* raises StaleDataError when the row was deleted
RowExists(st) == st # "absent"

\* await session.commit() of the trade branch: INSERT trade, UPDATE rule,
\* INSERT log in one transaction
TickCommitTrade(i) ==
  /\ ticks[i].pc = "commit_trade"
  /\ RowExists(status[ticks[i].rule])
  /\ LET r == ticks[i].rule
         t == ticks[i]
     IN /\ trades' = [trades EXCEPT ![r] = Append(@, TradeRow(cfg[r], Val(t.price), t.tx))]
        /\ status' = [status EXCEPT ![r] = StatusAfterTrade(t.tx)]
        /\ triggered_at' = [triggered_at EXCEPT ![r] = TRUE]
        /\ logs' = [logs EXCEPT ![r] =
                      Append(@, log_job_result(t.price, TRUE, Some("Condition met! Trade executed."), None))]
  /\ ticks' = [ticks EXCEPT ![i] = DoneTick]
  /\ UNCHANGED <<phase, use_mock, cfg, jobs, nticks, reqs, nreqs, creating, restarts>>
  /\ UNCHANGED pvars

\* await session.commit() of the "condition not met" branch: INSERT log
TickCommitLog(i) ==
  /\ ticks[i].pc = "commit"
  /\ LogInsertable(status[ticks[i].rule])
  /\ LET r == ticks[i].rule
     IN logs' = [logs EXCEPT ![r] =
                   Append(@, log_job_result(ticks[i].price, FALSE, Some("Condition not met."), None))]
  /\ ticks' = [ticks EXCEPT ![i] = DoneTick]
  /\ UNCHANGED <<phase, use_mock, status, triggered_at, cfg, trades, jobs, nticks,
                 reqs, nreqs, creating, restarts>>
  /\ UNCHANGED pvars

\* get_perp_market_price or evaluate_condition raises inside the try block,
\* before anything was added to the session: control goes to the except clause
TickRaise(i) ==
  /\ ticks[i].pc = "oracle"
  /\ ticks' = [ticks EXCEPT ![i] = [@ EXCEPT !.pc = "commit_error"]]
  /\ UNCHANGED <<phase, use_mock, store, jobs, nticks, reqs, nreqs, creating, restarts>>
  /\ UNCHANGED pvars

\* except Exception as e: log_job_result(session, rule_id, None, False,
\* error=str(e)); await session.commit()
TickCommitError(i) ==
  /\ ticks[i].pc = "commit_error"
  /\ LET r == ticks[i].rule
     IN logs' = [logs EXCEPT ![r] =
                   Append(@, log_job_result(None, FALSE, None, Some("exception")))]
  /\ ticks' = [ticks EXCEPT ![i] = DoneTick]
  /\ UNCHANGED <<phase, use_mock, status, triggered_at, cfg, trades, jobs, nticks,
                 reqs, nreqs, creating, restarts>>
  /\ UNCHANGED pvars

\* session.commit() raises: the flush is rolled back, the except clause adds
\* an error row and commits again on the session whose transaction is now
\* inactive, which raises as well; nothing of the tick reaches the store.
TickCommitFail(i) ==
  /\ ticks[i].pc \in {"commit", "commit_trade", "commit_error"}
  /\ ticks' = [ticks EXCEPT ![i] = DoneTick]
  /\ UNCHANGED <<phase, use_mock, store, jobs, nticks, reqs, nreqs, creating, restarts>>
  /\ UNCHANGED pvars

\* ------------------------------------------------------------- toggle_rule
\* select(TradingRule) of toggle_rule and chat_with_rule; 404 when missing
ReqLoad(r, k) ==
  /\ phase = "running"
  /\ nreqs < MaxReqs
  /\ status[r] # "absent"
  /\ nreqs' = nreqs + 1
  /\ reqs' = [reqs EXCEPT ![nreqs + 1] = [rule |-> r, kind |-> k, pc |-> "loaded", st |-> status[r]]]
  /\ UNCHANGED <<phase, use_mock, store, jobs, ticks, nticks, creating, restarts>>
  /\ UNCHANGED pvars

\* the status toggle_rule assigns for the status it loaded ("": HTTP 400)
ToggleTarget(st) ==
  CASE st = "active" -> "paused"
    [] st = "paused" -> "active"
    [] OTHER -> ""

\* the synchronous part of toggle_rule: rule.status = ...; pause/resume job
ToggleApply(j) ==
  /\ reqs[j].pc = "loaded"
  /\ reqs[j].kind = "toggle"
  /\ LET r == reqs[j].rule
         st == reqs[j].st
     IN /\ jobs' = CASE st = "active" -> pause_rule_job(jobs, r)
                     [] st = "paused" -> resume_rule_job(jobs, r)
                     [] OTHER -> jobs
        /\ reqs' = [reqs EXCEPT ![j] =
                      IF ToggleTarget(st) = "" THEN DoneReq
                      ELSE [@ EXCEPT !.pc = "commit", !.st = ToggleTarget(st)]]
  /\ UNCHANGED <<phase, use_mock, store, ticks, nticks, nreqs, creating, restarts>>
  /\ UNCHANGED pvars

\* await db.commit() of toggle_rule: UPDATE trading_rules SET status
ToggleCommit(j) ==
  /\ reqs[j].pc = "commit"
  /\ reqs[j].kind = "toggle"
  /\ status' = [status EXCEPT ![reqs[j].rule] = reqs[j].st]
  /\ reqs' = [reqs EXCEPT ![j] = DoneReq]
  /\ UNCHANGED <<phase, use_mock, triggered_at, cfg, logs, trades, jobs, ticks, nticks,
                 nreqs, creating, restarts>>
  /\ UNCHANGED pvars

\* ---------------------------------------------------------- chat_with_rule
\* the status the pause / resume command assigns for the status it loaded
\* ("": "already ...", no changes made)
ChatTarget(k, st) ==
  CASE k = "chat_pause" /\ st = "active" -> "paused"
    [] k = "chat_resume" /\ st = "paused" -> "active"
    [] OTHER -> ""

\* after await get_perp_market_price: rule.status = ...; await db.commit().
\* The scheduler is not called.
ChatCommit(j) ==
  /\ reqs[j].pc = "loaded"
  /\ reqs[j].kind \in {"chat_pause", "chat_resume"}
  /\ LET tgt == ChatTarget(reqs[j].kind, reqs[j].st)
     IN status' = IF tgt = "" THEN status ELSE [status EXCEPT ![reqs[j].rule] = tgt]
  /\ reqs' = [reqs EXCEPT ![j] = DoneReq]
  /\ UNCHANGED <<phase, use_mock, triggered_at, cfg, logs, trades, jobs, ticks, nticks,
                 nreqs, creating, restarts>>
  /\ UNCHANGED pvars

\* ---------------------------------------------------------------- deletes
\* the synchronous part of delete_rule after its SELECT:
\* job_scheduler.remove_rule_job(rule_id)
DeleteApply(j) ==
  /\ reqs[j].pc = "loaded"
  /\ reqs[j].kind = "delete"
  /\ jobs' = remove_rule_job(jobs, reqs[j].rule)
  /\ reqs' = [reqs EXCEPT ![j] = [@ EXCEPT !.pc = "commit"]]
  /\ UNCHANGED <<phase, use_mock, store, ticks, nticks, nreqs, creating, restarts>>
  /\ UNCHANGED pvars

\* delete(JobLog), delete(Trade), db.delete(rule), db.commit() of delete_rule:
\* one write transaction.  The condition and action columns stay in cfg for
\* the ticks that loaded the row before.
DeleteCommit(j) ==
  /\ reqs[j].pc = "commit"
  /\ reqs[j].kind = "delete"
  /\ LET r == reqs[j].rule
     IN /\ logs' = [logs EXCEPT ![r] = <<>>]
        /\ trades' = [trades EXCEPT ![r] = <<>>]
        /\ status' = [status EXCEPT ![r] = "absent"]
        /\ triggered_at' = [triggered_at EXCEPT ![r] = FALSE]
  /\ reqs' = [reqs EXCEPT ![j] = DoneReq]
  /\ UNCHANGED <<phase, use_mock, cfg, jobs, ticks, nticks, nreqs, creating, restarts>>
  /\ UNCHANGED pvars

\* the delete command of chat_with_rule, after await get_perp_market_price:
\* delete(JobLog), delete(TradingRule), db.commit().  The Trade rows are not
\* deleted, and the bulk delete of the rule does not cascade.
ChatDeleteCommit(j) ==
  /\ reqs[j].pc = "loaded"
  /\ reqs[j].kind = "chat_delete"
  /\ LET r == reqs[j].rule
     IN /\ logs' = [logs EXCEPT ![r] = <<>>]
        /\ status' = [status EXCEPT ![r] = "absent"]
        /\ triggered_at' = [triggered_at EXCEPT ![r] = FALSE]
  /\ reqs' = [reqs EXCEPT ![j] = [@ EXCEPT !.pc = "remove"]]
  /\ UNCHANGED <<phase, use_mock, cfg, trades, jobs, ticks, nticks, nreqs, creating, restarts>>
  /\ UNCHANGED pvars

\* job_scheduler.remove_rule_job(rule_id) once the commit has returned
ChatDeleteRemove(j) ==
  /\ reqs[j].pc = "remove"
  /\ reqs[j].kind = "chat_delete"
  /\ jobs' = remove_rule_job(jobs, reqs[j].rule)
  /\ reqs' = [reqs EXCEPT ![j] = DoneReq]
  /\ UNCHANGED <<phase, use_mock, store, ticks, nticks, nreqs, creating, restarts>>
  /\ UNCHANGED pvars

DeleteKinds == {"delete", "chat_delete"}

\* Every rule id holds an active rule with its job registered; the rules are
\* ticked and deleted, through the endpoint or through the rule chat.
DelNext ==
  \/ \E r \in RuleIds : TimerFire(r)
  \/ \E i \in TickIds : TickLoad(i)
  \/ \E i \in TickIds : \E p \in Prices : TickOracle(i, Some(p))
  \/ \E i \in TickIds : \E position \in Positions :
       \E price2 \in {None} \cup {Some(x) : x \in Prices} : \E placed \in BOOLEAN :
         TickTrade(i, position, price2, placed)
  \/ \E i \in TickIds : TickCommitTrade(i)
  \/ \E i \in TickIds : TickCommitLog(i)
  \/ \E i \in TickIds : TickCommitFail(i)
  \/ \E r \in RuleIds : \E k \in DeleteKinds : ReqLoad(r, k)
  \/ \E j \in ReqIds : DeleteApply(j)
  \/ \E j \in ReqIds : DeleteCommit(j)
  \/ \E j \in ReqIds : ChatDeleteCommit(j)
  \/ \E j \in ReqIds : ChatDeleteRemove(j)

\* ---------------------------------------------------------- pending trades
\* select(PendingTrade) of approve_pending_trade, reject_pending_trade and
\* get_pending_trades: the handler holds the row as it read it
PendingLoad(p, k) ==
  /\ npreqs < MaxPendingReqs
  /\ npreqs' = npreqs + 1
  /\ preqs' = [preqs EXCEPT ![npreqs + 1] =
                 [id |-> p, kind |-> k, pc |-> "loaded", st |-> pending[p], target |-> ""]]
  /\ UNCHANGED <<pending, pending_due, ptrades>>
  /\ UNCHANGED rulevars

\* approve: 400 unless the loaded status is PENDING; EXPIRED when expires_at
\* has passed; otherwise EXECUTED ("": nothing to commit)
ApproveTarget(st, due) ==
  IF st # "pending" THEN "" ELSE IF due THEN "expired" ELSE "executed"

\* reject: 400 unless the loaded status is PENDING; otherwise REJECTED
RejectTarget(st) == IF st # "pending" THEN "" ELSE "rejected"

\* get_pending_trades: a loaded PENDING row whose expires_at has passed is
\* set to EXPIRED
ListTarget(st, due) == IF st = "pending" /\ due THEN "expired" ELSE ""

PendingTarget(k, st, due) ==
  CASE k = "approve" -> ApproveTarget(st, due)
    [] k = "reject" -> RejectTarget(st)
    [] OTHER -> ListTarget(st, due)

\* the synchronous part of a handler between its SELECT and its commit: the
\* status check on the loaded row, the comparison of expires_at with utcnow()
PendingApply(j) ==
  /\ preqs[j].pc = "loaded"
  /\ LET tgt == PendingTarget(preqs[j].kind, preqs[j].st, pending_due[preqs[j].id])
     IN preqs' = [preqs EXCEPT ![j] =
                    IF tgt = "" THEN DonePReq ELSE [@ EXCEPT !.pc = "commit", !.target = tgt]]
  /\ UNCHANGED <<pending, pending_due, ptrades, npreqs>>
  /\ UNCHANGED rulevars

\* await db.commit(): UPDATE pending_trades SET status by primary key, and
\* for an approval INSERT INTO trades
PendingCommit(j) ==
  /\ preqs[j].pc = "commit"
  /\ LET p == preqs[j].id
     IN /\ pending' = [pending EXCEPT ![p] = preqs[j].target]
        /\ ptrades' = [ptrades EXCEPT ![p] =
                         IF preqs[j].target = "executed" THEN @ + 1 ELSE @]
  /\ preqs' = [preqs EXCEPT ![j] = DonePReq]
  /\ UNCHANGED <<pending_due, npreqs>>
  /\ UNCHANGED rulevars

\* the clock passes expires_at of a pending trade
PendingDue(p) ==
  /\ ~pending_due[p]
  /\ pending_due' = [pending_due EXCEPT ![p] = TRUE]
  /\ UNCHANGED <<pending, ptrades, preqs, npreqs>>
  /\ UNCHANGED rulevars

PendingKinds == {"approve", "reject", "list"}

PendingNext ==
  \/ \E p \in PendingIds : \E k \in PendingKinds : PendingLoad(p, k)
  \/ \E j \in PendingReqIds : PendingApply(j)
  \/ \E j \in PendingReqIds : PendingCommit(j)
  \/ \E p \in PendingIds : PendingDue(p)

\* ------------------------------------------------------------------- Next
ReqKinds == {"toggle", "chat_pause", "chat_resume"}

Next ==
  \/ RestoreFromStore
  \/ Restart
  \/ CreateCommit
  \/ \E r \in RuleIds : CreateAdd(r)
  \/ \E r \in RuleIds : Add(r)
  \/ \E r \in RuleIds : TimerFire(r)
  \/ \E i \in TickIds : TickLoad(i)
  \/ \E i \in TickIds : \E p \in {None} \cup {Some(x) : x \in Prices} : TickOracle(i, p)
  \/ \E i \in TickIds : \E position \in Positions :
       \E price2 \in {None} \cup {Some(x) : x \in Prices} : \E placed \in BOOLEAN :
         TickTrade(i, position, price2, placed)
  \/ \E i \in TickIds : TickCommitTrade(i)
  \/ \E i \in TickIds : TickCommitLog(i)
  \/ \E i \in TickIds : TickCommitFail(i)
  \/ \E r \in RuleIds : \E k \in ReqKinds : ReqLoad(r, k)
  \/ \E j \in ReqIds : ToggleApply(j)
  \/ \E j \in ReqIds : ToggleCommit(j)
  \/ \E j \in ReqIds : ChatCommit(j)

Spec == Init /\ [][Next]_vars

\* ------------------------------------------- one rule, any stored columns
\* evaluate_condition and execute_trade under every combination of the
\* columns a TradingRule row can hold: a rule is active with its job
\* registered, and the scheduler ticks it.
EvalPrices == {94, 95, 96, 99, 100, 101, 104, 105, 106}

EvalConditions ==
  {[condition_type |-> t, condition_value |-> 100, reference_price |-> Some(100)] :
     t \in {"price_above", "price_below"}}
  \cup {[condition_type |-> t, condition_value |-> v, reference_price |-> ref] :
          t \in {"price_change_percent", "price_change_absolute"},
          v \in {0 - 5, 0, 5}, ref \in {None, Some(0), Some(100)}}

EvalActions ==
  {[action_type |-> "sell", action_amount_percent |-> Some(pct), action_amount_usd |-> None] :
     pct \in {50, 100}}
  \cup {[action_type |-> "close_position", action_amount_percent |-> Some(100),
          action_amount_usd |-> None],
        [action_type |-> "buy", action_amount_percent |-> Some(100),
          action_amount_usd |-> Some(160)],
        [action_type |-> "buy", action_amount_percent |-> Some(100),
          action_amount_usd |-> None]}

MakeRule(c, a) ==
  [condition_type |-> c.condition_type, condition_value |-> c.condition_value,
   reference_price |-> c.reference_price, action_type |-> a.action_type,
   action_amount_percent |-> a.action_amount_percent,
   action_amount_usd |-> a.action_amount_usd]

\* a condition that holds at every price of EvalPrices
AlwaysMet == [condition_type |-> "price_below", condition_value |-> 1000,
              reference_price |-> Some(100)]

EvalRules ==
  {MakeRule(c, [action_type |-> "sell", action_amount_percent |-> Some(100),
                action_amount_usd |-> None]) : c \in EvalConditions}
  \cup {MakeRule(AlwaysMet, a) : a \in EvalActions}

EvalInit ==
  /\ phase = "running"
  /\ use_mock \in BOOLEAN
  /\ status = [r \in RuleIds |-> IF r = 1 THEN "active" ELSE "absent"]
  /\ triggered_at = [r \in RuleIds |-> FALSE]
  /\ cfg \in {[r \in RuleIds |-> IF r = 1 THEN c ELSE NoConfig] : c \in EvalRules}
  /\ logs = [r \in RuleIds |-> <<>>]
  /\ trades = [r \in RuleIds |-> <<>>]
  /\ jobs = [r \in RuleIds |-> IF r = 1 THEN "scheduled" ELSE "none"]
  /\ ticks = [i \in TickIds |-> IdleTick]
  /\ nticks = 0
  /\ reqs = [j \in ReqIds |-> IdleReq]
  /\ nreqs = 0
  /\ creating = {}
  /\ restarts = 0
  /\ PendingInit

EvalNext ==
  \/ \E r \in RuleIds : TimerFire(r)
  \/ \E i \in TickIds : TickLoad(i)
  \/ \E i \in TickIds, p \in EvalPrices : TickOracle(i, Some(p))
  \/ \E i \in TickIds, position \in Positions,
        price2 \in {None} \cup {Some(x) : x \in EvalPrices}, placed \in BOOLEAN :
        TickTrade(i, position, price2, placed)
  \/ \E i \in TickIds : TickCommitTrade(i)
  \/ \E i \in TickIds : TickCommitLog(i)
  \/ \E i \in TickIds : TickRaise(i)
  \/ \E i \in TickIds : TickCommitError(i)

SpecEval == EvalInit /\ [][EvalNext]_vars

\* ------------------------------------------------ several rules, ticks only
\* Every rule id holds an active rule with its job registered; the ticks of
\* the rules interleave, and each can fail in every way a tick can fail.
IsoInit ==
  /\ phase = "running"
  /\ use_mock \in BOOLEAN
  /\ status = [r \in RuleIds |-> "active"]
  /\ triggered_at = [r \in RuleIds |-> FALSE]
  /\ cfg = [r \in RuleIds |-> RuleConfig(r)]
  /\ logs = [r \in RuleIds |-> <<>>]
  /\ trades = [r \in RuleIds |-> <<>>]
  /\ jobs = [r \in RuleIds |-> "scheduled"]
  /\ ticks = [i \in TickIds |-> IdleTick]
  /\ nticks = 0
  /\ reqs = [j \in ReqIds |-> IdleReq]
  /\ nreqs = 0
  /\ creating = {}
  /\ restarts = 0
  /\ PendingInit

\* execute_trade with whatever the exchange client does
LiveTrade ==
  \E i \in TickIds : \E position \in Positions :
    \E price2 \in {None} \cup {Some(x) : x \in Prices} : \E placed \in BOOLEAN :
      TickTrade(i, position, price2, placed)

IsoNext ==
  \/ \E r \in RuleIds : TimerFire(r)
  \/ \E i \in TickIds : TickLoad(i)
  \/ \E i \in TickIds : \E p \in {None} \cup {Some(x) : x \in Prices} : TickOracle(i, p)
  \/ \E i \in TickIds : TickRaise(i)
  \/ \E i \in TickIds : TickCommitError(i)
  \/ LiveTrade
  \/ \E i \in TickIds : TickCommitTrade(i)
  \/ \E i \in TickIds : TickCommitLog(i)
  \/ \E i \in TickIds : TickCommitFail(i)

SpecIso == IsoInit /\ [][IsoNext]_vars

\* the same rules, ticked and deleted
SpecDel == IsoInit /\ [][DelNext]_vars

\* the same rules, left alone, and requests on the pending trades
SpecPending == IsoInit /\ [][PendingNext]_vars

\* ------------------------------------------ the timer under fair scheduling
\* One active rule whose condition holds at every price, its job registered;
\* the interval trigger keeps firing, the event loop runs every coroutine on,
\* and the oracle answers again and again (it may fail any number of times
\* in between).  Finished ticks are forgotten, so the ticks never run out.
LiveRules == {MakeRule(AlwaysMet, a) : a \in EvalActions}

LiveInit ==
  /\ phase = "running"
  /\ use_mock \in BOOLEAN
  /\ status = [r \in RuleIds |-> IF r = 1 THEN "active" ELSE "absent"]
  /\ triggered_at = [r \in RuleIds |-> FALSE]
  /\ cfg \in {[r \in RuleIds |-> IF r = 1 THEN c ELSE NoConfig] : c \in LiveRules}
  /\ logs = [r \in RuleIds |-> <<>>]
  /\ trades = [r \in RuleIds |-> <<>>]
  /\ jobs = [r \in RuleIds |-> IF r = 1 THEN "scheduled" ELSE "none"]
  /\ ticks = [i \in TickIds |-> IdleTick]
  /\ nticks = 0
  /\ reqs = [j \in ReqIds |-> IdleReq]
  /\ nreqs = 0
  /\ creating = {}
  /\ restarts = 0
  /\ PendingInit

\* the executor drops its record of the runs that have ended
ForgetTicks ==
  /\ nticks = MaxTicks
  /\ \A i \in TickIds : ticks[i].pc = "done"
  /\ ticks' = [i \in TickIds |-> IdleTick]
  /\ nticks' = 0
  /\ UNCHANGED <<phase, use_mock, store, jobs, reqs, nreqs, creating, restarts>>
  /\ UNCHANGED pvars

OracleAnswers == \E i \in TickIds : \E p \in Prices : TickOracle(i, Some(p))

LiveNext ==
  \/ \E r \in RuleIds : TimerFire(r)
  \/ \E i \in TickIds : TickLoad(i)
  \/ \E i \in TickIds : TickOracle(i, None)
  \/ OracleAnswers
  \/ LiveTrade
  \/ \E i \in TickIds : TickCommitTrade(i)
  \/ ForgetTicks

LiveFairness ==
  /\ WF_vars(\E r \in RuleIds : TimerFire(r))
  /\ WF_vars(\E i \in TickIds : TickLoad(i))
  /\ SF_vars(OracleAnswers)
  /\ WF_vars(LiveTrade)
  /\ WF_vars(\E i \in TickIds : TickCommitTrade(i))
  /\ WF_vars(ForgetTicks)

SpecLive == LiveInit /\ [][LiveNext]_vars /\ LiveFairness

\* ================================================================ claims
Last(s) == s[Len(s)]

MetLogs(r) == {k \in 1..Len(logs[r]) : logs[r][k].condition_met}

\* C1: for every rule, at most one Trade row with its rule_id is ever
\* created, whatever the interleaving of ticks, Add, toggle, rule-chat
\* pause/resume and restart with restore_jobs.
CE_C1 == \A r \in RuleIds : Len(trades[r]) <= 1

\* C2: at any time at most one execution of check_rule_condition is in
\* flight per rule id; a fire that finds the previous run still going is
\* dropped, also after Add replaced the job during the run.
Thm_C2 == \A r \in RuleIds : instances(r) <= 1

\* a tick is past its trade (it removed the job itself), add_rule_job
\* registered the job again, and the run is still in flight: the next fire
\* meets it
Wit_C2 ==
  \E i \in TickIds : /\ ticks[i].pc = "commit_trade"
                     /\ jobs[ticks[i].rule] = "scheduled"

\* C3: once a rule's stored status is triggered, no log row and no trade row
\* is written for it any more and its status stays triggered.
CE_C3 ==
  [][\A r \in RuleIds :
       status[r] = "triggered" =>
         /\ status'[r] = "triggered"
         /\ logs'[r] = logs[r]
         /\ trades'[r] = trades[r]]_vars

\* C4: a tick whose condition held and whose execute_trade returned a
\* receipt removes the rule's job before it commits, and its commit adds
\* exactly one trade row with status confirmed, sets the rule triggered
\* with triggered_at, and adds a log row with condition_met true.
Thm_C4 ==
  [][\A i \in TickIds :
       LET r == ticks[i].rule
       IN /\ (ticks[i].pc = "trade" /\ ticks'[i].pc = "commit_trade"
                /\ ticks'[i].tx # None)
               => jobs'[r] = "none"
          /\ (TickCommitTrade(i) /\ ticks[i].tx # None)
               => /\ Len(trades'[r]) = Len(trades[r]) + 1
                  /\ SubSeq(trades'[r], 1, Len(trades[r])) = trades[r]
                  /\ Last(trades'[r]).status = "confirmed"
                  /\ Last(trades'[r]).tx_signature = ticks[i].tx
                  /\ status'[r] = "triggered"
                  /\ triggered_at'[r]
                  /\ Len(logs'[r]) = Len(logs[r]) + 1
                  /\ Last(logs'[r]).condition_met
                  /\ Last(logs'[r]).current_price = ticks[i].price]_vars

\* scenario A: the sell-below-80 rule saw 85, then 79
Wit_C4 ==
  /\ cfg[1] = SellBelow
  /\ Len(logs[1]) = 2
  /\ logs[1][1].current_price = Some(85) /\ ~logs[1][1].condition_met
  /\ logs[1][2].current_price = Some(79) /\ logs[1][2].condition_met
  /\ Len(trades[1]) = 1 /\ trades[1][1].status = "confirmed"
  /\ status[1] = "triggered"
  /\ jobs[1] = "none"

\* C5: a tick whose condition held and whose execute_trade returned None
\* (the executor failed or raised) removes the rule's job, and its commit
\* adds exactly one trade row with status failed and sets the rule
\* triggered.
Thm_C5 ==
  [][\A i \in TickIds :
       LET r == ticks[i].rule
       IN /\ (ticks[i].pc = "trade" /\ ticks'[i].pc = "commit_trade"
                /\ ticks'[i].tx = None)
               => jobs'[r] = "none"
          /\ (TickCommitTrade(i) /\ ticks[i].tx = None)
               => /\ Len(trades'[r]) = Len(trades[r]) + 1
                  /\ SubSeq(trades'[r], 1, Len(trades[r])) = trades[r]
                  /\ Last(trades'[r]).status = "failed"
                  /\ Last(trades'[r]).tx_signature = None
                  /\ status'[r] = "triggered"]_vars

\* scenario C: one failed trade, rule triggered, no job left
Wit_C5 ==
  \E r \in RuleIds :
    /\ Len(trades[r]) = 1 /\ trades[r][1].status = "failed"
    /\ status[r] = "triggered"
    /\ jobs[r] = "none"
    /\ ~use_mock

\* C6: every tick of an active rule in which the oracle is unavailable
\* persists one log row with current_price null, condition_met false and
\* the error "price unavailable".
CE_C6 ==
  [][\A i \in TickIds :
       TickOracle(i, None) =>
         LET r == ticks[i].rule
         IN /\ Len(logs'[r]) = Len(logs[r]) + 1
            /\ Last(logs'[r]).current_price = None
            /\ ~Last(logs'[r]).condition_met
            /\ Last(logs'[r]).error = Some("price unavailable")]_vars

\* C7: in every committed state of the store a rule is triggered if and
\* only if a trade row and a log row with condition_met true exist for it.
CE_C7 ==
  \A r \in RuleIds :
    status[r] = "triggered" <=> (Len(trades[r]) > 0 /\ MetLogs(r) # {})

\* C8: when the commit that ends a tick fails, nothing of the tick is
\* persisted and the rule's job is still registered, so the next fire
\* evaluates the rule again.
CE_C8 ==
  [][\A i \in TickIds :
       TickCommitFail(i) =>
         /\ UNCHANGED store
         /\ jobs'[ticks[i].rule] # "none"]_vars

\* C9: a stored status only changes along active->paused,
\* active->triggered, paused->active and active->expired; nothing leaves
\* triggered or expired.
StatusTransitions ==
  { <<"absent", "active">>, <<"active", "paused">>, <<"active", "triggered">>,
    <<"paused", "active">>, <<"active", "expired">> }

CE_C9 ==
  [][\A r \in RuleIds :
       status'[r] # status[r] => <<status[r], status'[r]>> \in StatusTransitions]_vars

\* C10: restore_jobs on the empty scheduler of a starting process leaves a
\* job for every rule stored as active and none for any other rule.
Thm_C10 ==
  [][RestoreFromStore =>
       \A r \in RuleIds :
         /\ status[r] = "active" => jobs'[r] = "scheduled"
         /\ status[r] # "active" => jobs'[r] = "none"]_vars

\* after a restart: a paused rule without job next to an active rule with
\* one, no handler in flight
Wit_C10 ==
  /\ restarts > 0
  /\ phase = "running"
  /\ creating = {}
  /\ \E r \in RuleIds : status[r] = "paused" /\ jobs[r] = "none"
  /\ \E r \in RuleIds : status[r] = "active" /\ jobs[r] = "scheduled"

\* C11: Add(ruleID) is idempotent and evaluates nothing: whenever the
\* scheduler's add_rule_job runs for a rule id (from create_rule or called
\* again, with or without a job already in the job store), afterwards the id
\* has its one job registered, every other id's job is as before, a further
\* Add would leave the job store as it is, and the step starts no tick and
\* writes nothing to the store.
Thm_C11 ==
  [][\A r \in RuleIds :
       (Add(r) \/ CreateAdd(r)) =>
         /\ jobs'[r] = "scheduled"
         /\ \A q \in RuleIds \ {r} : jobs'[q] = jobs[q]
         /\ add_rule_job(jobs', r) = jobs'
         /\ ticks' = ticks /\ nticks' = nticks
         /\ store' = store]_vars

\* Add ran twice for rule id 1 (no rule row, no restart, both calls of the
\* request budget spent on it): the second call found the first one's job
Wit_C11 ==
  /\ restarts = 0 /\ nreqs = 2
  /\ \A r \in RuleIds : status[r] = "absent"
  /\ jobs[1] = "scheduled"
  /\ \A r \in RuleIds \ {1} : jobs[r] = "none"

\* C12: pausing a registered job leaves it in the job store, paused, and a
\* paused job starts no tick; resuming it puts the same job back to firing;
\* pause, resume and remove on an id without a job leave the job store as it is.
Thm_C12 ==
  [][/\ \A j \in ReqIds :
          ToggleApply(j) =>
            LET r == reqs[j].rule
            IN /\ jobs[r] = "none" => jobs' = jobs
               /\ (jobs[r] # "none" /\ reqs[j].st = "active")
                    => jobs' = [jobs EXCEPT ![r] = "paused"]
               /\ (jobs[r] # "none" /\ reqs[j].st = "paused")
                    => jobs' = [jobs EXCEPT ![r] = "scheduled"]
     /\ \A i \in TickIds :
          (ticks[i].pc = "trade" /\ ticks'[i].pc = "commit_trade"
             /\ jobs[ticks[i].rule] = "none") => jobs' = jobs
     /\ \A i \in TickIds :
          (ticks[i].pc = "unused" /\ ticks'[i].pc = "load")
            => jobs[ticks'[i].rule] = "scheduled"]_vars

\* a toggle paused a rule whose job was registered: the job is still there
Wit_C12 == \E r \in RuleIds : jobs[r] = "paused" /\ status[r] = "paused"

\* the ticks that have evaluated the condition of their rule: those that
\* went on to trade (condition met) and those that went on to log (not met)
Evaluated(i) == ticks[i].pc \in {"trade", "commit_trade", "commit"}

Met(i) == ticks[i].pc \in {"trade", "commit_trade"}

\* C13: a tick of a price_above rule finds the condition met iff the price
\* it observed is strictly greater than the condition value, a tick of a
\* price_below rule iff it is strictly smaller; at the value itself neither
\* is met.
Thm_C13 ==
  \A i \in TickIds :
    Evaluated(i) =>
      LET c == cfg[ticks[i].rule]
          p == Val(ticks[i].price)
      IN /\ c.condition_type = "price_above" => (Met(i) <=> p > c.condition_value)
         /\ c.condition_type = "price_below" => (Met(i) <=> p < c.condition_value)
         /\ (c.condition_type \in {"price_above", "price_below"}
               /\ p = c.condition_value) => ~Met(i)

\* a price_above tick has observed exactly the condition value and has
\* gone to the "not met" branch
Wit_C13 ==
  \E i \in TickIds :
    /\ ticks[i].pc = "commit"
    /\ cfg[ticks[i].rule].condition_type = "price_above"
    /\ Val(ticks[i].price) = cfg[ticks[i].rule].condition_value

\* C14: a tick of a price_change_percent rule with a stored reference price
\* that is neither null nor zero finds the condition met iff the change
\* (price - ref) / ref * 100 is >= the value when the value is positive, and
\* iff it is <= the value otherwise; with reference 100 a value of +5 is met
\* iff the price is >= 105 and a value of -5 iff the price is <= 95.
Thm_C14 ==
  \A i \in TickIds :
    (Evaluated(i)
       /\ cfg[ticks[i].rule].condition_type = "price_change_percent"
       /\ cfg[ticks[i].rule].reference_price \notin {None, Some(0)}) =>
      LET c == cfg[ticks[i].rule]
          p == Val(ticks[i].price)
          v == c.condition_value
          ref == Val(c.reference_price)
      IN /\ (ref > 0 /\ v > 0) => (Met(i) <=> (p - ref) * 100 >= v * ref)
         /\ (ref > 0 /\ v <= 0) => (Met(i) <=> (p - ref) * 100 <= v * ref)
         /\ (ref = 100 /\ v = 5) => (Met(i) <=> p >= 105)
         /\ (ref = 100 /\ v = 0 - 5) => (Met(i) <=> p <= 95)

\* a +5 percent rule with reference 100 has met its condition at exactly 105
Wit_C14 ==
  \E i \in TickIds :
    /\ Met(i)
    /\ cfg[ticks[i].rule].condition_type = "price_change_percent"
    /\ cfg[ticks[i].rule].reference_price = Some(100)
    /\ cfg[ticks[i].rule].condition_value = 5
    /\ ticks[i].price = Some(105)

\* C15: a tick of a price_change_percent rule whose stored reference price
\* is 0 never finds the condition met, whatever the price and the value.
CE_C15 ==
  \A i \in TickIds :
    (Evaluated(i)
       /\ cfg[ticks[i].rule].condition_type = "price_change_percent"
       /\ cfg[ticks[i].rule].reference_price = Some(0)) => ~Met(i)

\* the order that closes (part of) a position: opposite direction, reduce-only
Opposite(pos) == IF pos > 0 THEN "short" ELSE "long"

\* C16: a tick that executes a sell action submits, when the position API
\* reports a position, one reduce-only order in the direction opposite to the
\* position (short for a long position, long for a short one) of size
\* abs(position size) * action_amount_percent / 100, and submits no order
\* when there is no position.
CE_C16 ==
  \A i \in TickIds :
    (ticks[i].pc = "commit_trade" /\ cfg[ticks[i].rule].action_type = "sell") =>
      LET t == ticks[i]
          pct == Val(cfg[t.rule].action_amount_percent)
      IN IF t.pos = None
           THEN t.order = None
           ELSE t.order = Some([direction |-> Opposite(Val(t.pos)),
                                size |-> <<Abs(Val(t.pos)) * pct, 100>>,
                                reduce_only |-> TRUE])

\* C17: a tick that executes a close_position action while there is no open
\* position submits no order and does not record a failed trade; with an
\* open position it submits one reduce-only order in the opposite direction
\* of the full position size.
CE_C17 ==
  [][\A i \in TickIds :
       (TickCommitTrade(i) /\ cfg[ticks[i].rule].action_type = "close_position") =>
         LET t == ticks[i]
         IN IF t.pos = None
              THEN t.order = None /\ Last(trades'[t.rule]).status # "failed"
              ELSE t.order = Some([direction |-> Opposite(Val(t.pos)),
                                   size |-> <<Abs(Val(t.pos)), 1>>,
                                   reduce_only |-> TRUE])]_vars

\* C18: a tick that executes a buy action with action_amount_usd set submits
\* an order of size action_amount_usd / the price the tick observed; when
\* there is no valid price it submits no order and the outcome it records
\* differs from that of an order the exchange client failed to place.
CE_C18 ==
  \A i \in TickIds :
    (ticks[i].pc = "commit_trade" /\ cfg[ticks[i].rule].action_type = "buy"
       /\ cfg[ticks[i].rule].action_amount_usd # None) =>
      LET t == ticks[i]
          usd == Val(cfg[t.rule].action_amount_usd)
      IN /\ t.order # None => Val(t.order).size = <<usd, Val(t.price)>>
         /\ t.price2 = None => (t.order = None /\ t.tx # ExecutorFailure)

\* C19: a tick that loads its rule and finds no row, or a row whose status
\* is not active, ends there: it does not go on to the oracle or the
\* executor, and the store (logs, trades, rule status) and the job store are
\* as before.
Thm_C19 ==
  [][\A i \in TickIds :
       (TickLoad(i) /\ status[ticks[i].rule] # "active") =>
         /\ ticks'[i] = DoneTick
         /\ store' = store
         /\ jobs' = jobs]_vars

\* the one tick so far ran for a job whose id has no rule row (no rule was
\* ever created) and has ended; nothing was written and the job is still there
Wit_C19 ==
  /\ restarts = 0 /\ nticks = 1 /\ ticks[1] = DoneTick
  /\ \A r \in RuleIds : status[r] = "absent" /\ logs[r] = <<>> /\ trades[r] = <<>>
  /\ \E r \in RuleIds : jobs[r] = "scheduled"

\* C20: a tick of an active rule that observes a price at which the
\* condition is false goes to the "not met" branch without touching the
\* store, the job store or the executor, and its commit appends exactly one
\* log row for the rule, carrying the observed price and condition_met =
\* false; it writes no trade row, no rule status and leaves the job registered.
Thm_C20 ==
  [][\A i \in TickIds :
       /\ (ticks[i].pc = "oracle" /\ ticks'[i].pc = "commit") =>
            /\ ~evaluate_condition(cfg[ticks[i].rule], Val(ticks'[i].price))
            /\ ticks'[i].order = None /\ ticks'[i].tx = None
            /\ store' = store /\ jobs' = jobs
       /\ TickCommitLog(i) =>
            LET r == ticks[i].rule
            IN /\ Len(logs'[r]) = Len(logs[r]) + 1
               /\ SubSeq(logs'[r], 1, Len(logs[r])) = logs[r]
               /\ Last(logs'[r]).current_price = ticks[i].price
               /\ ticks[i].price # None
               /\ ~Last(logs'[r]).condition_met
               /\ \A q \in RuleIds \ {r} : logs'[q] = logs[q]
               /\ trades' = trades /\ status' = status
               /\ triggered_at' = triggered_at
               /\ ticks[i].order = None /\ ticks[i].tx = None
               /\ jobs' = jobs]_vars

\* a rule has a "not met" log row as its latest, no trade, and is still
\* active with its job registered
Wit_C20 ==
  \E r \in RuleIds :
    /\ logs[r] # <<>> /\ ~Last(logs[r]).condition_met
    /\ Last(logs[r]).current_price # None
    /\ trades[r] = <<>>
    /\ status[r] = "active" /\ jobs[r] = "scheduled"

\* C21: a tick that gets no price from the oracle changes neither the store
\* nor the job store, so the rule is still active with its job registered
\* however often that happens; and with the timer firing and the oracle
\* answering again, an active rule whose condition holds at the returned
\* price is eventually triggered.
Thm_C21 ==
  /\ [][\A i \in TickIds :
          TickOracle(i, None) => (store' = store /\ jobs' = jobs)]_vars
  /\ \A r \in RuleIds :
       (status[r] = "active" /\ jobs[r] = "scheduled") ~> (status[r] = "triggered")

\* the first tick ended without writing anything (the oracle gave no price),
\* the second one has triggered the rule
Wit_C21 ==
  /\ nticks = 2 /\ ticks[1] = DoneTick /\ ticks[2] = DoneTick
  /\ status[1] = "triggered" /\ Len(logs[1]) = 1 /\ Len(trades[1]) = 1

CE_C23 ==
  [][\A i \in TickIds :
       (TickCommitFail(i) /\ ticks[i].pc = "commit_trade") =>
         LET r == ticks[i].rule
         IN /\ status'[r] = "triggered"
            /\ Len(trades'[r]) = Len(trades[r]) + 1]_vars

\* C24: when the price lookup or the evaluation of an active rule raises,
\* the tick touches neither the store nor the job store until its except
\* clause commits exactly one log row carrying the error, with condition_met
\* false and no price; no trade row is written and the rule stays active with
\* its job registered.
Thm_C24 ==
  [][\A i \in TickIds :
       /\ TickRaise(i) => (store' = store /\ jobs' = jobs)
       /\ TickCommitError(i) =>
            LET r == ticks[i].rule
            IN /\ Len(logs'[r]) = Len(logs[r]) + 1
               /\ SubSeq(logs'[r], 1, Len(logs[r])) = logs[r]
               /\ Last(logs'[r]).error # None
               /\ ~Last(logs'[r]).condition_met
               /\ Last(logs'[r]).current_price = None
               /\ trades' = trades
               /\ status'[r] = "active" /\ jobs'[r] = "scheduled"
               /\ ticks[i].order = None]_vars

\* the latest log row of a rule carries an error; the rule has no trade and
\* is still active with its job registered
Wit_C24 ==
  \E r \in RuleIds :
    /\ logs[r] # <<>> /\ Last(logs[r]).error # None
    /\ trades[r] = <<>>
    /\ status[r] = "active" /\ jobs[r] = "scheduled"

\* C25: no step of a tick of one rule, failing or not (no price, an
\* exception, a failed order, a failed commit), changes another rule's stored
\* status, job, log rows or trade rows, another rule's running tick, or
\* whether the scheduler would start a tick of another rule.
Thm_C25 ==
  [][\A i \in TickIds :
       (InFlight(ticks[i]) /\ ticks'[i] # ticks[i]) =>
         \A q \in RuleIds \ {ticks[i].rule} :
           /\ status'[q] = status[q] /\ jobs'[q] = jobs[q]
           /\ logs'[q] = logs[q] /\ trades'[q] = trades[q]
           /\ \A k \in TickIds : ticks[k].rule = q => ticks'[k] = ticks[k]
           /\ CanSubmit(q)' = CanSubmit(q)]_vars

\* rule 1's tick ended in a failed trade while rule 2, still active with
\* its job registered, has had a tick of its own that wrote its log row
Wit_C25 ==
  /\ trades[1] # <<>> /\ Last(trades[1]).status = "failed"
  /\ status[2] = "active" /\ jobs[2] = "scheduled" /\ logs[2] # <<>>

\* the ticks that have evaluated a change condition (percent or absolute)
\* of a rule stored without reference price
NullRefTick(i) ==
  /\ Evaluated(i)
  /\ cfg[ticks[i].rule].condition_type \in {"price_change_percent", "price_change_absolute"}
  /\ cfg[ticks[i].rule].reference_price = None

\* C26 as stated: a tick of a price_change_percent or price_change_absolute
\* rule without reference price never finds the condition met, whatever the
\* price and the condition value.
CE_C26 == \A i \in TickIds : NullRefTick(i) => ~Met(i)

\* C26, amended: a tick of a price_change_percent or price_change_absolute
\* rule without reference price never finds the condition met when the
\* condition value is not 0, whatever the price; with the value 0 it finds it
\* met at every price.
Thm_C26 ==
  \A i \in TickIds :
    NullRefTick(i) => (Met(i) <=> cfg[ticks[i].rule].condition_value = 0)

\* a rule without reference price and with condition value +5 (absolute)
\* has been evaluated at a price and gone to the "not met" branch
Wit_C26 ==
  \E i \in TickIds :
    /\ NullRefTick(i) /\ ticks[i].pc = "commit"
    /\ cfg[ticks[i].rule].condition_type = "price_change_absolute"
    /\ cfg[ticks[i].rule].condition_value = 5

\* no request handler, create_rule handler or tick is part-way through
Quiescent ==
  /\ phase = "running"
  /\ creating = {}
  /\ \A i \in TickIds : ~InFlight(ticks[i])
  /\ \A j \in ReqIds : reqs[j].pc \in {"unused", "done"}

\* C27: whenever no request and no tick is part-way through, every rule
\* stored as active has a registered job that is not paused.
CE_C27 ==
  Quiescent => \A r \in RuleIds : status[r] = "active" => jobs[r] = "scheduled"

\* C28: once a delete of a rule (endpoint or rule chat) has run to its end
\* and the rule row is gone, the scheduler holds no job for the id and the
\* store holds no log row and no trade row of it, also when a tick of the
\* rule was past its load while the delete ran.
CE_C28 ==
  \A r \in RuleIds :
    (status[r] = "absent"
       /\ \A j \in ReqIds : reqs[j].rule = r => reqs[j].pc \in {"unused", "done"})
      => (jobs[r] = "none" /\ logs[r] = <<>> /\ trades[r] = <<>>)

\* C29: the order a tick submits for a buy rule has long direction, the
\* side the tick writes to the trade row of a buy rule.
CE_C29 ==
  \A i \in TickIds :
    (ticks[i].pc = "commit_trade" /\ cfg[ticks[i].rule].action_type = "buy"
       /\ ticks[i].order # None) =>
      /\ Val(ticks[i].order).direction = "long"
      /\ Val(ticks[i].order).direction = TradeSide(cfg[ticks[i].rule])

\* C30: a pending trade's status never changes once it is no longer PENDING,
\* at most one Trade row is ever created for a pending trade, and no Trade
\* row is created for a pending trade whose stored status is not PENDING.
CE_C30 ==
  /\ [](\A p \in PendingIds : ptrades[p] <= 1)
  /\ [][\A p \in PendingIds :
          pending[p] # "pending" =>
            (pending'[p] = pending[p] /\ ptrades'[p] = ptrades[p])]_vars

====
